---- MODULE Spec2Model ----
(***************************************************************************)
(* Louvain community detection (src/src/louvain.hxx): weight bookkeeping,  *)
(* the local-moving phase, the aggregation phase and delta-screening.      *)
(*                                                                         *)
(* Weights are positive integers.  The real-valued quantities of the code  *)
(* (delta modularity e, the sweep total el, the tolerance E) are kept      *)
(* multiplied by 2*M^2, which is positive whenever they are computed, so   *)
(* every comparison of the code keeps its outcome and the arithmetic is    *)
(* exact.  The variable M2 holds 2*M, the sum of all directed weights.     *)
(***************************************************************************)
EXTENDS Integers, Sequences, FiniteSets, TLC

\* ------------------------------------------------------------------ bounds

\* span of the graph: vertex keys and community ids are 0 .. S-1
S == 3
\* largest number of sweeps a caller asks for (L ranges over -1 .. MaxL)
MaxL == 2
\* resolution, the default of LouvainOptions and of louvainAffectedVertices
R == 1

Keys == 0 .. (S - 1)
Weights == {1, 2}
\* numbers of undirected edges (self-loops included) of an input graph
EdgeCounts == 0 .. 2
\* numbers of edges in an update batch (deletions plus insertions)
BatchSizes == 0 .. 2
Tolerances == {0, 2}
Iterations == (-1) .. MaxL

\* ------------------------------------------------------------------ graphs

\* An input graph: V the live keys, w[<<u, v>>] the weight of edge u -> v
\* (0: no edge).  Graphs are undirected: w[<<u, v>>] = w[<<v, u>>].
Slots == {p \in Keys \X Keys : p[1] <= p[2]}

MkGraph(V, Es, wt) ==
  [V |-> V,
   w |-> [p \in Keys \X Keys |->
            IF p[1] <= p[2]
              THEN (IF p \in Es THEN wt[p] ELSE 0)
              ELSE (IF <<p[2], p[1]>> \in Es THEN wt[<<p[2], p[1]>>] ELSE 0)]]

Graphs ==
  UNION {UNION {{MkGraph(V, Es, wt) :
                   V \in {X \in SUBSET Keys : \A p \in Es : p[1] \in X /\ p[2] \in X}} :
                wt \in [Es -> Weights]} :
         Es \in {X \in SUBSET Slots : Cardinality(X) \in EdgeCounts}}

\* the keys of A from k on, in ascending order
RECURSIVE KeySeq(_, _)
KeySeq(A, k) ==
  IF k >= S THEN <<>>
  ELSE (IF k \in A THEN <<k>> ELSE <<>>) \o KeySeq(A, k + 1)

\* x.forEachVertexKey: the live keys in ascending order
VertexKeys(g) == KeySeq(g.V, 0)

\* x.forEachEdge(u, ...) / x.forEachEdgeKey(u, ...): targets in ascending order
EdgeKeys(g, u) == KeySeq({k \in Keys : g.w[<<u, k>>] > 0}, 0)

\* the sum of f[v] over the keys v of the sequence s
RECURSIVE SumSeq(_, _)
SumSeq(f, s) == IF s = <<>> THEN 0 ELSE f[Head(s)] + SumSeq(f, Tail(s))

RECURSIVE SumKeys(_, _)
SumKeys(f, k) == IF k >= S THEN 0 ELSE f[k] + SumKeys(f, k + 1)

\* the sum of f[k] over the keys k of the set A
SumSet(f, A) == SumKeys([k \in Keys |-> IF k \in A THEN f[k] ELSE 0], 0)

\* the sum of f[<<u, v>>] over the pairs of A \X B
SumPairs(f, A, B) == SumSet([u \in Keys |-> SumSet([v \in Keys |-> f[<<u, v>>]], B)], A)

Zeros == [k \in Keys |-> 0]

\* total weight of the directed graph, 2*M
edgeWeight(g) == SumPairs(g.w, Keys, Keys)

\* ------------------------------------------------------ LOUVAIN-INITIALIZE

RECURSIVE VertexWeightsFrom(_, _, _)
VertexWeightsFrom(vt, g, us) ==
  IF us = <<>> THEN vt
  ELSE LET u == Head(us)
       IN VertexWeightsFrom([vt EXCEPT ![u] = @ + SumSeq([v \in Keys |-> g.w[<<u, v>>]],
                                                         EdgeKeys(g, u))],
                            g, Tail(us))

louvainVertexWeights(vt, g) == VertexWeightsFrom(vt, g, VertexKeys(g))

RECURSIVE CommunityWeightsFrom(_, _, _, _)
CommunityWeightsFrom(ct, us, vc, vt) ==
  IF us = <<>> THEN ct
  ELSE LET u == Head(us)
           c == vc[u]
       IN CommunityWeightsFrom([ct EXCEPT ![c] = @ + vt[u]], Tail(us), vc, vt)

louvainCommunityWeights(ct, g, vc, vt) ==
  CommunityWeightsFrom(ct, VertexKeys(g), vc, vt)

\* louvainInitialize without its `vcom[u] = u`: the given vcom is kept
louvainInitializeNoVcom(vc, ct, g, vt) ==
  [vcom |-> vc,
   ctot |-> [u \in Keys |-> IF u \in g.V THEN vt[u] ELSE ct[u]]]

louvainInitialize(vc, ct, g, vt) ==
  [vcom |-> [u \in Keys |-> IF u \in g.V THEN u ELSE vc[u]],
   ctot |-> [u \in Keys |-> IF u \in g.V THEN vt[u] ELSE ct[u]]]

\* ------------------------------------------------- LOUVAIN-CHANGE-COMMUNITY

\* A scan state: vcs the vector of communities, vcout the weights (a vector,
\* a function on 0 .. size-1), ub set once an element outside vcout is used.
ScanEdge(SELF, st, g, u, v, vc) ==
  IF st.ub \/ (~SELF /\ u = v) THEN st
  ELSE LET c == vc[v] IN
       IF c \notin DOMAIN st.vcout THEN [st EXCEPT !.ub = TRUE]
       ELSE [vcs   |-> IF st.vcout[c] = 0 THEN Append(st.vcs, c) ELSE st.vcs,
             vcout |-> [st.vcout EXCEPT ![c] = @ + g.w[<<u, v>>]],
             ub    |-> FALSE]

RECURSIVE ScanFrom(_, _, _, _, _, _)
ScanFrom(SELF, st, g, u, vs, vc) ==
  IF vs = <<>> THEN st
  ELSE ScanFrom(SELF, ScanEdge(SELF, st, g, u, Head(vs), vc), g, u, Tail(vs), vc)

louvainScanCommunities(SELF, st, g, u, vc) ==
  ScanFrom(SELF, st, g, u, EdgeKeys(g, u), vc)

\* louvainClearScan without its `vcs.clear()`
louvainClearScanKeepsList(st) ==
  [vcs   |-> st.vcs,
   vcout |-> [c \in DOMAIN st.vcout |->
                IF \E i \in 1 .. Len(st.vcs) : st.vcs[i] = c THEN 0 ELSE st.vcout[c]],
   ub    |-> st.ub]

louvainClearScan(st) ==
  IF \E i \in 1 .. Len(st.vcs) : st.vcs[i] \notin DOMAIN st.vcout
    THEN [st EXCEPT !.ub = TRUE]
    ELSE [vcs   |-> <<>>,
          vcout |-> [c \in DOMAIN st.vcout |->
                       IF \E i \in 1 .. Len(st.vcs) : st.vcs[i] = c THEN 0
                       ELSE st.vcout[c]],
          ub    |-> st.ub]

\* deltaModularity(vcout, vdout, vtot, ctot, dtot, M, R) times 2*M^2:
\*   (vcout - vdout)/M - R*vtot*(vtot + ctot - dtot)/(2*M^2)
deltaModularity(vcout_c, vdout, vt, ct, dt, m2, r) ==
  m2 * (vcout_c - vdout) - r * vt * (vt + ct - dt)

\* the choice loop with `e >= emax` for `e > emax`
RECURSIVE ChooseFromTies(_, _, _, _, _, _, _, _, _, _)
ChooseFromTies(SELF, best, u, vc, vt, ct, cs, vo, m2, r) ==
  IF cs = <<>> THEN best
  ELSE LET c == Head(cs)
           d == vc[u]
           e == deltaModularity(vo[c], vo[d], vt[u], ct[c], ct[d], m2, r)
       IN IF ~SELF /\ c = d
            THEN ChooseFromTies(SELF, best, u, vc, vt, ct, Tail(cs), vo, m2, r)
            ELSE ChooseFromTies(SELF, IF e >= best[2] THEN <<c, e>> ELSE best,
                                u, vc, vt, ct, Tail(cs), vo, m2, r)

RECURSIVE ChooseFrom(_, _, _, _, _, _, _, _, _, _)
ChooseFrom(SELF, best, u, vc, vt, ct, cs, vo, m2, r) ==
  IF cs = <<>> THEN best
  ELSE LET c == Head(cs)
           d == vc[u]
           e == deltaModularity(vo[c], vo[d], vt[u], ct[c], ct[d], m2, r)
       IN IF ~SELF /\ c = d
            THEN ChooseFrom(SELF, best, u, vc, vt, ct, Tail(cs), vo, m2, r)
            ELSE ChooseFrom(SELF, IF e > best[2] THEN <<c, e>> ELSE best,
                            u, vc, vt, ct, Tail(cs), vo, m2, r)

\* louvainChooseCommunity accepting a gain that ties with emax
louvainChooseCommunityTies(SELF, u, vc, vt, ct, cs, vo, m2, r) ==
  ChooseFromTies(SELF, <<0, 0>>, u, vc, vt, ct, cs, vo, m2, r)

\* returns <<cmax, emax>>; cmax = K() = 0 and emax = V() = 0 to begin with
louvainChooseCommunity(SELF, u, vc, vt, ct, cs, vo, m2, r) ==
  ChooseFrom(SELF, <<0, 0>>, u, vc, vt, ct, cs, vo, m2, r)

\* louvainChangeCommunity without its `ctot[d] -= vtot[u]`
louvainChangeCommunityKeepsOld(vc, ct, u, c, vt) ==
  [vcom |-> [vc EXCEPT ![u] = c],
   ctot |-> [ct EXCEPT ![c] = @ + vt[u]]]

louvainChangeCommunity(vc, ct, u, c, vt) ==
  LET d   == vc[u]
      ct1 == [ct EXCEPT ![d] = @ - vt[u]]
      ct2 == [ct1 EXCEPT ![c] = @ + vt[u]]
  IN [vcom |-> [vc EXCEPT ![u] = c], ctot |-> ct2]

\* --------------------------------------------------------------- state

VARIABLES
  x,        \* the graph
  vtot,     \* total edge weight of each vertex
  vcom,     \* community each vertex belongs to
  ctot,     \* total edge weight of each community
  vcs,      \* communities the scanned vertex is linked to
  vcout,    \* total edge weight from the scanned vertex to each community
  M2,       \* 2*M, M the total weight of the undirected graph
  E,        \* tolerance (times 2*M^2)
  L,        \* max iterations
  l,        \* iterations performed
  el,       \* sum of the best gains of the current sweep (times 2*M^2)
  i,        \* position of forEachVertexKey in VertexKeys(x)
  c,        \* community last returned by louvainChooseCommunity
  e,        \* gain last returned by louvainChooseCommunity
  els,      \* history: el at the end of each completed sweep
  mode,     \* "singleton": louvainInitialize, "given": louvainCommunityWeights
  pc,       \* control point
  a,        \* louvainAggregate: the output graph
  comv,     \* louvainAggregate: the vertices of each community
  deletions,    \* louvainAffectedVertices: edge deletions of the batch
  insertions,   \* louvainAffectedVertices: edge insertions of the batch
  vertices,     \* louvainAffectedVertices: the flags returned
  neighbors,    \* louvainAffectedVertices: whose neighbours are affected
  communities   \* louvainAffectedVertices: which communities are affected

aggVars == <<a, comv>>
affVars == <<deletions, insertions, vertices, neighbors, communities>>
moveVars == <<E, L, l, el, e, els>>

vars == <<x, vtot, vcom, ctot, vcs, vcout, M2, E, L, l, el, i, c, e, els, mode, pc,
          a, comv, deletions, insertions, vertices, neighbors, communities>>

NoFlags == [k \in Keys |-> FALSE]
EmptyGraph == [V |-> {}, w |-> [p \in Keys \X Keys |-> 0]]

Unused ==
  /\ a = EmptyGraph /\ comv = [k \in Keys |-> <<>>]
  /\ deletions = <<>> /\ insertions = <<>>
  /\ vertices = NoFlags /\ neighbors = NoFlags /\ communities = NoFlags

\* clusterings handed in by a caller: one live vertex placed in another
\* community, every other live vertex in its own; slots of dead keys stay 0
GivenVcoms(g) ==
  {vc \in [Keys -> Keys] :
     /\ \A u \in Keys \ g.V : vc[u] = 0
     /\ Cardinality({u \in g.V : vc[u] # u}) = 1}

Init ==
  /\ x \in Graphs
  /\ mode \in {"singleton", "given"}
  /\ vcom \in (IF mode = "singleton" THEN {Zeros} ELSE GivenVcoms(x))
  /\ vtot = Zeros /\ ctot = Zeros
  /\ vcs = <<>> /\ vcout = Zeros
  /\ M2 = 0 /\ E = 0 /\ L = 0 /\ l = 0 /\ el = 0 /\ i = 0 /\ c = 0 /\ e = 0
  /\ els = <<>>
  /\ pc = "weights"
  /\ Unused

\* ------------------------------------------------------------ LOUVAIN-MOVE

LouvainVertexWeights ==
  /\ pc = "weights"
  /\ vtot' = louvainVertexWeights(vtot, x)
  /\ M2' = edgeWeight(x)
  /\ pc' = "setup"
  /\ UNCHANGED <<aggVars, affVars, x, vcom, ctot, vcs, vcout, E, L, l, el, i, c, e, els, mode>>

LouvainInitialize ==
  /\ pc = "setup" /\ mode = "singleton"
  /\ LET r == louvainInitialize(vcom, ctot, x, vtot)
     IN vcom' = r.vcom /\ ctot' = r.ctot
  /\ pc' = "call"
  /\ UNCHANGED <<aggVars, affVars, x, vtot, vcs, vcout, M2, E, L, l, el, i, c, e, els, mode>>

LouvainCommunityWeights ==
  /\ pc = "setup" /\ mode = "given"
  /\ ctot' = louvainCommunityWeights(ctot, x, vcom, vtot)
  /\ pc' = "call"
  /\ UNCHANGED <<aggVars, affVars, x, vtot, vcom, vcs, vcout, M2, E, L, l, el, i, c, e, els, mode>>

\* for (; l<L;)
loopContinues(ll, LL) == ll < LL

\* the convergence test with `el < E` for `el <= E`
sweepConvergedStrict(s, EE) == s < EE

\* if (el<=E) break;
sweepConverged(s, EE) == s <= EE

\* the move guard with `if (e > 0)` for `if (c)`
moveAppliesOnGain(cc, ee) == ee > 0

\* if (c) louvainChangeCommunity(...)
moveApplies(cc, ee) == cc # 0

\* entry of louvainMove(vcom, ctot, vcs, vcout, x, vtot, M, R, E, L): int l = 0
MoveEnter ==
  /\ pc = "call"
  /\ E' \in Tolerances
  /\ L' \in Iterations
  /\ l' = 0
  /\ pc' = "test"
  /\ UNCHANGED <<aggVars, affVars, x, vtot, vcom, ctot, vcs, vcout, M2, el, i, c, e, els, mode>>

\* the loop test, and V el = V() at the top of a sweep
LoopTest ==
  /\ pc = "test"
  /\ IF loopContinues(l, L)
       THEN /\ el' = 0
            /\ i' = 1
            /\ pc' = IF VertexKeys(x) = <<>> THEN "sweepend" ELSE "clear"
       ELSE /\ pc' = "done"
            /\ UNCHANGED <<el, i>>
  /\ UNCHANGED <<aggVars, affVars, x, vtot, vcom, ctot, vcs, vcout, M2, E, L, l, c, e, els, mode>>

ClearScan ==
  /\ pc = "clear"
  /\ LET st == louvainClearScan([vcs |-> vcs, vcout |-> vcout, ub |-> FALSE])
     IN vcs' = st.vcs /\ vcout' = st.vcout
  /\ pc' = "scan"
  /\ UNCHANGED <<aggVars, affVars, x, vtot, vcom, ctot, M2, E, L, l, el, i, c, e, els, mode>>

ScanCommunities ==
  /\ pc = "scan"
  /\ LET st == louvainScanCommunities(FALSE, [vcs |-> vcs, vcout |-> vcout, ub |-> FALSE],
                                      x, VertexKeys(x)[i], vcom)
     IN vcs' = st.vcs /\ vcout' = st.vcout
  /\ pc' = "choose"
  /\ UNCHANGED <<aggVars, affVars, x, vtot, vcom, ctot, M2, E, L, l, el, i, c, e, els, mode>>

\* auto [c, e] = louvainChooseCommunity(...); if (c) louvainChangeCommunity(...);
\* el += e; and the step of forEachVertexKey
ChooseCommunity ==
  /\ pc = "choose"
  /\ LET u  == VertexKeys(x)[i]
         ce == louvainChooseCommunity(FALSE, u, vcom, vtot, ctot, vcs, vcout, M2, R)
         r  == louvainChangeCommunity(vcom, ctot, u, ce[1], vtot)
     IN /\ c' = ce[1]
        /\ e' = ce[2]
        /\ IF moveApplies(ce[1], ce[2])
             THEN vcom' = r.vcom /\ ctot' = r.ctot
             ELSE UNCHANGED <<vcom, ctot>>
        /\ el' = el + ce[2]
  /\ i' = i + 1
  /\ pc' = IF i = Len(VertexKeys(x)) THEN "sweepend" ELSE "clear"
  /\ UNCHANGED <<aggVars, affVars, x, vtot, vcs, vcout, M2, E, L, l, els, mode>>

\* ++l; if (el<=E) break;
SweepEnd ==
  /\ pc = "sweepend"
  /\ l' = l + 1
  /\ els' = Append(els, el)
  /\ pc' = IF sweepConverged(el, E) THEN "done" ELSE "test"
  /\ UNCHANGED <<aggVars, affVars, x, vtot, vcom, ctot, vcs, vcout, M2, E, L, el, i, c, e, mode>>

Next ==
  \/ LouvainVertexWeights
  \/ LouvainInitialize
  \/ LouvainCommunityWeights
  \/ MoveEnter
  \/ LoopTest
  \/ ClearScan
  \/ ScanCommunities
  \/ ChooseCommunity
  \/ SweepEnd

Spec == Init /\ [][Next]_vars

\* the code is sequential: every step that can be taken is taken
FairSpec == Spec /\ WF_vars(Next)

\* ------------------------------------------------------- LOUVAIN-AGGREGATE

\* the clustering louvainInitialize leaves: every live vertex on its own
Singletons(g) == louvainInitialize(Zeros, Zeros, g, Zeros).vcom

Clusterings(g) == {Singletons(g)} \cup GivenVcoms(g)

RECURSIVE CommunityVerticesFrom(_, _, _)
CommunityVerticesFrom(cv, us, vc) ==
  IF us = <<>> THEN cv
  ELSE CommunityVerticesFrom([cv EXCEPT ![vc[Head(us)]] = Append(@, Head(us))],
                             Tail(us), vc)

\* vector2d<K> a(S); a[vcom[u]].push_back(u) for every vertex key u
louvainCommunityVertices(g, vc) ==
  CommunityVerticesFrom([k \in Keys |-> <<>>], VertexKeys(g), vc)

addVertex(g, k) == [g EXCEPT !.V = @ \cup {k}]

addEdge(g, u, v, wt) == [g EXCEPT !.V = @ \cup {u, v}, !.w[<<u, v>>] = wt]

RECURSIVE AddEdgesFrom(_, _, _, _)
AddEdgesFrom(g, cc, ds, vo) ==
  IF ds = <<>> THEN g
  ELSE AddEdgesFrom(addEdge(g, cc, Head(ds), vo[Head(ds)]), cc, Tail(ds), vo)

RECURSIVE ScanMembersFrom(_, _, _, _)
ScanMembersFrom(st, g, us, vc) ==
  IF us = <<>> THEN st
  ELSE ScanMembersFrom(louvainScanCommunities(TRUE, st, g, Head(us), vc), g, Tail(us), vc)

\* one turn of the loop over c, up to the scans: louvainClearScan, then
\* louvainScanCommunities<true> for every member of c
AggregateScan(cc, st, g, cv, vc) == ScanMembersFrom(louvainClearScan(st), g, cv[cc], vc)

\* what an element of vcout past its end may hold when the access does not trap
WildContents == [Keys -> {0, 1}]

AggInit ==
  /\ x \in Graphs
  /\ vcom \in Clusterings(x)
  /\ mode = (IF vcom = Singletons(x) THEN "singleton" ELSE "given")
  /\ vtot = Zeros /\ ctot = Zeros
  /\ vcs = <<>> /\ vcout = Zeros
  /\ M2 = 0 /\ E = 0 /\ L = 0 /\ l = 0 /\ el = 0 /\ i = 0 /\ c = 0 /\ e = 0
  /\ els = <<>>
  /\ pc = "aggregate"
  /\ Unused

\* entry of louvainAggregate(a, x, vcom): vector<K> vcs; vector<V> vcout;
\* auto comv = louvainCommunityVertices(x, vcom); K c = 0
AggregateEnter ==
  /\ pc = "aggregate"
  /\ vcs' = <<>>
  /\ vcout' = <<>>
  /\ comv' = louvainCommunityVertices(x, vcom)
  /\ c' = 0
  /\ pc' = "community"
  /\ UNCHANGED <<affVars, moveVars, x, vtot, vcom, ctot, M2, i, mode, a>>

\* the body of the loop for one c, every access inside vcout
AggregateCommunity ==
  /\ pc = "community"
  /\ LET st == AggregateScan(c, [vcs |-> vcs, vcout |-> vcout, ub |-> FALSE], x, comv, vcom)
     IN /\ ~st.ub
        /\ vcs' = st.vcs
        /\ vcout' = st.vcout
        /\ a' = AddEdgesFrom(addVertex(a, c), c, st.vcs, st.vcout)
  /\ c' = c + 1
  /\ pc' = IF c + 1 < S THEN "community" ELSE "returned"
  /\ UNCHANGED <<affVars, moveVars, x, vtot, vcom, ctot, M2, i, mode, comv>>

\* the body of the loop for one c when a scan indexes vcout past its end:
\* undefined behaviour; the access traps, or it lands in memory that holds
\* anything and the vector behaves from then on as backed by that memory
AggregateOutOfBounds ==
  /\ pc = "community"
  /\ AggregateScan(c, [vcs |-> vcs, vcout |-> vcout, ub |-> FALSE], x, comv, vcom).ub
  /\ \/ /\ pc' = "crashed"
        /\ UNCHANGED vcout
     \/ /\ vcout' \in WildContents
        /\ pc' = "community"
  /\ UNCHANGED <<affVars, moveVars, x, vtot, vcom, ctot, vcs, M2, i, c, mode, a, comv>>

AggNext == AggregateEnter \/ AggregateCommunity \/ AggregateOutOfBounds

AggSpec == AggInit /\ [][AggNext]_vars

\* ----------------------------------------------- LOUVAIN-AFFECTED-VERTICES

\* the deletion step flagging the community of u for that of v
markDeletionOwnCommunity(fl, u, v, vc) ==
  [vertices    |-> [fl.vertices EXCEPT ![u] = TRUE],
   neighbors   |-> [fl.neighbors EXCEPT ![u] = TRUE],
   communities |-> [fl.communities EXCEPT ![vc[u]] = TRUE]]

\* the body of the loop over deletions
markDeletion(fl, u, v, vc) ==
  [vertices    |-> [fl.vertices EXCEPT ![u] = TRUE],
   neighbors   |-> [fl.neighbors EXCEPT ![u] = TRUE],
   communities |-> [fl.communities EXCEPT ![vc[v]] = TRUE]]

\* the body of the loop over insertions, after louvainClearScan gave st:
\* louvainChooseCommunity on the buffers as they are, then the three flags
markInsertion(fl, st, u, vc, vt, ct, m2, r) ==
  LET ce == louvainChooseCommunity(FALSE, u, vc, vt, ct, st.vcs, st.vcout, m2, r)
  IN [vertices    |-> [fl.vertices EXCEPT ![u] = TRUE],
      neighbors   |-> [fl.neighbors EXCEPT ![u] = TRUE],
      communities |-> [fl.communities EXCEPT ![ce[1]] = TRUE]]

RECURSIVE MarkKeys(_, _)
MarkKeys(vs, ks) ==
  IF ks = <<>> THEN vs ELSE MarkKeys([vs EXCEPT ![Head(ks)] = TRUE], Tail(ks))

\* the closing pass spreading from the vertices flags for the neighbors flags
RECURSIVE MaterializeSpreading(_, _, _, _)
MaterializeSpreading(fl, g, us, vc) ==
  IF us = <<>> THEN fl.vertices
  ELSE LET u  == Head(us)
           v1 == IF fl.vertices[u] THEN MarkKeys(fl.vertices, EdgeKeys(g, u)) ELSE fl.vertices
           v2 == IF fl.communities[vc[u]] THEN [v1 EXCEPT ![u] = TRUE] ELSE v1
       IN MaterializeSpreading([fl EXCEPT !.vertices = v2], g, Tail(us), vc)

RECURSIVE MaterializeFrom(_, _, _, _)
MaterializeFrom(fl, g, us, vc) ==
  IF us = <<>> THEN fl.vertices
  ELSE LET u  == Head(us)
           v1 == IF fl.neighbors[u] THEN MarkKeys(fl.vertices, EdgeKeys(g, u)) ELSE fl.vertices
           v2 == IF fl.communities[vc[u]] THEN [v1 EXCEPT ![u] = TRUE] ELSE v1
       IN MaterializeFrom([fl EXCEPT !.vertices = v2], g, Tail(us), vc)

\* the closing pass of louvainAffectedVertices, spreading transitively
materializeSpreading(fl, g, vc) == MaterializeSpreading(fl, g, VertexKeys(g), vc)

\* the closing loop over the vertex keys
materialize(fl, g, vc) == MaterializeFrom(fl, g, VertexKeys(g), vc)

Pairs == {p \in Keys \X Keys : p[1] # p[2]}

Before(p, q) == p[1] < q[1] \/ (p[1] = q[1] /\ p[2] < q[2])

RECURSIVE SortedSeq(_)
SortedSeq(A) ==
  IF A = {} THEN <<>>
  ELSE LET m == CHOOSE p \in A : \A q \in A \ {p} : Before(p, q)
       IN <<m>> \o SortedSeq(A \ {m})

\* batches <<deletions, insertions>>, each sorted by source vertex id
Batches ==
  {<<SortedSeq(D), SortedSeq(I)>> :
     D \in {J \in SUBSET Pairs : Cardinality(J) \in BatchSizes},
     I \in {J \in SUBSET Pairs : Cardinality(J) \in BatchSizes}}

Flags == [vertices |-> vertices, neighbors |-> neighbors, communities |-> communities]

AffInit ==
  /\ x \in Graphs
  /\ vcom \in Clusterings(x)
  /\ mode = (IF vcom = Singletons(x) THEN "singleton" ELSE "given")
  /\ vtot = louvainVertexWeights(Zeros, x)
  /\ ctot = louvainCommunityWeights(Zeros, x, vcom, vtot)
  /\ M2 = edgeWeight(x)
  /\ \E b \in Batches :
       /\ Len(b[1]) + Len(b[2]) \in BatchSizes
       /\ deletions = b[1]
       /\ insertions = b[2]
  /\ vcs = <<>> /\ vcout = Zeros
  /\ vertices = NoFlags /\ neighbors = NoFlags /\ communities = NoFlags
  /\ E = 0 /\ L = 0 /\ l = 0 /\ el = 0 /\ i = 1 /\ c = 0 /\ e = 0
  /\ els = <<>>
  /\ a = EmptyGraph /\ comv = [k \in Keys |-> <<>>]
  /\ pc = "batch"

\* for (const auto& [u, v] : deletions)
AffectedDeletion ==
  /\ pc = "batch" /\ i <= Len(deletions)
  /\ LET fl == markDeletion(Flags, deletions[i][1], deletions[i][2], vcom)
     IN vertices' = fl.vertices /\ neighbors' = fl.neighbors /\ communities' = fl.communities
  /\ i' = i + 1
  /\ UNCHANGED <<aggVars, moveVars, x, vtot, vcom, ctot, vcs, vcout, M2, c, mode, pc,
                 deletions, insertions>>

\* for (const auto& [u, _] : insertions)
AffectedInsertion ==
  /\ pc = "batch" /\ i > Len(deletions) /\ i <= Len(deletions) + Len(insertions)
  /\ LET u  == insertions[i - Len(deletions)][1]
         st == louvainClearScan([vcs |-> vcs, vcout |-> vcout, ub |-> FALSE])
         fl == markInsertion(Flags, st, u, vcom, vtot, ctot, M2, R)
     IN /\ vcs' = st.vcs /\ vcout' = st.vcout
        /\ c' = louvainChooseCommunity(FALSE, u, vcom, vtot, ctot, st.vcs, st.vcout, M2, R)[1]
        /\ vertices' = fl.vertices /\ neighbors' = fl.neighbors /\ communities' = fl.communities
  /\ i' = i + 1
  /\ UNCHANGED <<aggVars, moveVars, x, vtot, vcom, ctot, M2, mode, pc, deletions, insertions>>

\* x.forEachVertexKey(...); return vertices;
AffectedReturn ==
  /\ pc = "batch" /\ i > Len(deletions) + Len(insertions)
  /\ vertices' = materialize(Flags, x, vcom)
  /\ pc' = "returned"
  /\ UNCHANGED <<aggVars, moveVars, x, vtot, vcom, ctot, vcs, vcout, M2, i, c, mode,
                 deletions, insertions, neighbors, communities>>

AffNext == AffectedDeletion \/ AffectedInsertion \/ AffectedReturn

AffSpec == AffInit /\ [][AffNext]_vars

\* ------------------------------------------------ what the claims speak of

\* total edge weight of vertex u, read off the graph
VertexWeight(u) == SumSet([v \in Keys |-> x.w[<<u, v>>]], Keys)

Members(vc, cc) == {u \in x.V : vc[u] = cc}

\* total weight of the members of community cc under clustering vc
CommunityWeight(vc, cc) == SumSet([u \in Keys |-> VertexWeight(u)], Members(vc, cc))

\* weight of the edges inside community cc under clustering vc (both directions)
InsideWeight(vc, cc) ==
  SumPairs(x.w, Members(vc, cc), Members(vc, cc))

\* modularity Q of clustering vc, times (2*M)^2:
\*   Q = sum over c of in(c)/(2M) - R*(ctot(c)/(2M))^2
Modularity(vc) ==
  SumSet([cc \in Keys |->
            M2 * InsideWeight(vc, cc) - R * CommunityWeight(vc, cc) * CommunityWeight(vc, cc)],
         Keys)

\* weight from u to the other members of community cc
LinkWeight(vc, u, cc) ==
  SumSet([v \in Keys |-> x.w[<<u, v>>]], Members(vc, cc) \ {u})

\* delta modularity of moving u to cc, from a scan of u against clustering vc
DeltaOfMove(vc, u, cc) ==
  deltaModularity(LinkWeight(vc, u, cc), LinkWeight(vc, u, vc[u]), VertexWeight(u),
                  CommunityWeight(vc, cc), CommunityWeight(vc, vc[u]), M2, R)

Neighbours(u) == {v \in Keys : v # u /\ x.w[<<u, v>>] > 0}

RECURSIVE Reach(_, _)
Reach(A, n) ==
  IF n = 0 THEN A ELSE Reach(A \cup UNION {Neighbours(u) : u \in A}, n - 1)

\* the connected component of u
Component(u) == Reach({u}, S)

Moving == pc \notin {"weights", "setup"}

Clean == vcs = <<>> /\ \A k \in Keys : vcout[k] = 0

\* ------------------------------------------------------------------ claims

\* C1: from louvainInitialize or louvainCommunityWeights on, through every
\* move, ctot[c] is the sum of vtot[u] over the live u with vcom[u] = c, for
\* every c in [0,S); the sums of ctot and vtot agree; vtot stays the vertex
\* weights of the graph.
C1_CommunityWeightsConsistent ==
  Moving =>
    /\ \A k \in Keys : ctot[k] = CommunityWeight(vcom, k)
    /\ \A k \in Keys : vtot[k] = (IF k \in x.V THEN VertexWeight(k) ELSE 0)
    /\ SumSet(ctot, Keys) = SumSet(vtot, Keys)

\* C1 witness: louvainMove has returned after moving some vertex into the
\* community of another.
C1_Witness ==
  /\ pc = "done"
  /\ l >= 1
  /\ \E u \in x.V : vcom[u] # u /\ vtot[u] > 0 /\ Cardinality(Members(vcom, vcom[u])) >= 2

\* C2: every move louvainMove applies to u, from d to c, has c # d, c holding
\* a neighbour of u, and a gain e > 0 equal to the delta modularity of the
\* scan of u against the state before the move; modularity grows by exactly
\* that gain, and never decreases during the local-moving phase.
C2_MovesGainModularity ==
  [][Moving =>
       /\ Modularity(vcom') >= Modularity(vcom)
       /\ (vcom' # vcom =>
             LET u == VertexKeys(x)[i]
             IN /\ pc = "choose"
                /\ \A v \in Keys \ {u} : vcom'[v] = vcom[v]
                /\ vcom'[u] = c'
                /\ c' # vcom[u]
                /\ \E v \in Neighbours(u) : vcom[v] = c'
                /\ e' > 0
                /\ e' = DeltaOfMove(vcom, u, c')
                /\ Modularity(vcom') - Modularity(vcom) = 2 * e')]_vars

\* C2 witness: a move has just been applied (c nonzero comes with a move).
C2_Witness == pc \in {"clear", "sweepend"} /\ i >= 2 /\ c # 0 /\ e > 0 /\ vcom[VertexKeys(x)[i - 1]] = c

\* C7 as stated: vcout is all zero and vcs empty right before and right after
\* every louvainClearScan call of louvainMove, and when louvainMove returns.
C7_CleanAroundClear == pc \in {"clear", "scan", "done"} => Clean

\* C7, amended: vcout is all zero and vcs empty right after every
\* louvainClearScan call of louvainMove.
C7_CleanAfterClear == pc = "scan" => Clean

\* C7 witness: louvainClearScan has just run on buffers that held the scan of
\* the previous vertex, which has a neighbour.
C7_Witness == pc = "scan" /\ i >= 2 /\ Neighbours(VertexKeys(x)[i - 1]) # {} /\ Clean

\* C8: from the singleton initialization on, two live vertices of the same
\* community are in the same connected component.
C8_CommunitiesWithinComponents ==
  (mode = "singleton" /\ Moving) =>
    \A u \in x.V : \A v \in x.V : vcom[u] = vcom[v] => v \in Component(u)

\* C8 witness: a graph of several components in which a community of two
\* vertices has formed.
C8_Witness ==
  /\ mode = "singleton" /\ pc = "done"
  /\ \E u \in x.V : \E v \in x.V : u # v /\ vcom[u] = vcom[v]
  /\ \E u \in x.V : \E v \in x.V : v \notin Component(u)

\* what louvainMove returns, in terms of the el of each completed sweep
C9_Returned(bound) ==
  pc = "done" =>
    /\ l = Len(els)
    /\ l <= bound
    /\ \A k \in 1 .. (l - 1) : els[k] > E
    /\ (l >= 1 => (els[l] <= E \/ l = L))
    /\ (L >= 1 => l >= 1)
    /\ (L <= 0 => l = 0)

C10_NoMoveIntoZero ==
  /\ [][pc = "choose" =>
          /\ \A u \in Keys : vcom'[u] = 0 => vcom[u] = 0
          /\ (c' = 0 => (vcom' = vcom /\ ctot' = ctot /\ el' = el + e'))]_vars
  /\ []((mode = "singleton" /\ Moving) => \A u \in x.V : vcom[u] = 0 => u = 0)

\* C10 witness: community 0 was the best neighbour community of a vertex
\* outside it, with a positive gain, and the vertex has stayed where it was.
C10_Witness ==
  /\ pc \in {"clear", "sweepend"} /\ i >= 2
  /\ c = 0 /\ e > 0
  /\ vcom[VertexKeys(x)[i - 1]] # 0
  /\ el >= e

\* weight the condensed graph is to carry from community cc to community dd
CondensedWeight(cc, dd) ==
  SumPairs(x.w, Members(vcom, cc), Members(vcom, dd))

AggregateEnded == pc \in {"returned", "crashed"}

\* C3: louvainAggregate returns a graph whose edge (c,d) exists exactly when
\* some edge (u,v,w) of x has vcom[u] = c and vcom[v] = d, its weight the sum
\* of those w, c = d included; the total edge weight is that of x.
C3_AggregateSumsEdges ==
  AggregateEnded =>
    /\ pc = "returned"
    /\ \A p \in Keys \X Keys : a.w[p] = CondensedWeight(p[1], p[2])
    /\ edgeWeight(a) = edgeWeight(x)

\* C4: louvainAggregate with the identity clustering returns a graph with the
\* vertex set and the weighted edge set of x, dead keys in [0,S) or not.
C4_IdentityRoundTrip ==
  (AggregateEnded /\ vcom = Singletons(x)) =>
    /\ pc = "returned"
    /\ a.V = x.V
    /\ a.w = x.w

\* the vertices flagged in the mask louvainAffectedVertices returns
Marked == {k \in Keys : vertices[k]}

EdgeTargets(u) == {v \in Keys : x.w[<<u, v>>] > 0}

\* the community a full scan of u's edges followed by the delta-modularity
\* choice finds, with its gain
BestMove(u) ==
  LET st == louvainScanCommunities(FALSE, [vcs |-> <<>>, vcout |-> Zeros, ub |-> FALSE],
                                   x, u, vcom)
  IN louvainChooseCommunity(FALSE, u, vcom, vtot, ctot, st.vcs, st.vcout, M2, R)

\* C5: for each insertion (u,v) the mask marks u, the neighbours of u, and
\* every vertex of c*, the neighbour community of u with the largest
\* positive delta modularity under the current clustering.
C5_InsertionMarksBestCommunity ==
  pc = "returned" =>
    \A k \in 1 .. Len(insertions) :
      LET u == insertions[k][1]
      IN /\ u \in Marked
         /\ EdgeTargets(u) \subseteq Marked
         /\ BestMove(u)[2] > 0 => Members(vcom, BestMove(u)[1]) \subseteq Marked

\* what the deletions of the batch are to mark
DeletionMarks ==
  UNION {{deletions[k][1]} \cup EdgeTargets(deletions[k][1])
           \cup Members(vcom, vcom[deletions[k][2]]) : k \in 1 .. Len(deletions)}

\* C6: for each deletion (u,v) the mask marks u, the neighbours of u in x and
\* the live vertices of community vcom[v]; with no insertions nothing else is
\* marked, and with both batches empty nothing is.
C6_DeletionsMarkOneHop ==
  pc = "returned" =>
    /\ DeletionMarks \subseteq Marked
    /\ insertions = <<>> => Marked = DeletionMarks
    /\ (insertions = <<>> /\ deletions = <<>>) => Marked = {}

\* C6 witness: a batch of deletions alone has been screened; a source, a
\* neighbour that is no source, and a vertex reached only through the
\* community of a target are marked, and a neighbour's neighbour is not.
C6_Witness ==
  /\ pc = "returned" /\ insertions = <<>> /\ deletions # <<>>
  /\ \E k \in 1 .. Len(deletions) :
       LET u == deletions[k][1]
       IN /\ \E v \in EdgeTargets(u) \ {u} : v \in Marked
          /\ \E v \in EdgeTargets(u) : \E t \in EdgeTargets(v) : t \in x.V \ Marked
  /\ Marked = DeletionMarks

====
